---- MODULE Spec2Model ----
(***************************************************************************)
(* Model of the time-series tab of streamlit_app.py: the selection         *)
(* validator (validate_fields), the Generate pipeline of                   *)
(* decompose_time_series (validate, slice, plot, seasonal_decompose) and   *)
(* sarima_forecast.                                                        *)
(*                                                                         *)
(* Dates.  A date as the user or the CSV file gives it is a triple         *)
(* <<year, month, day>>; pd.to_datetime turns it into a timestamp, here    *)
(* the number of days since 1 January of BaseYear, and raises ValueError   *)
(* on a triple that names no calendar day.                                 *)
(*                                                                         *)
(* Optional values.  Python's None is <<>> and a value v is <<v>>; a NaN   *)
(* of a numeric series is <<>> in the same way.                            *)
(***************************************************************************)
EXTENDS Integers, Sequences, FiniteSets, TLC

VARIABLES
    data,              \* the frame main() loads: a sequence of rows
    selected_state,    \* st.selectbox('Select a state:')
    selected_product,  \* st.selectbox('Select a product:')
    period_date,       \* st.date_input: a tuple of 0, 1 or 2 dates
    pc,                \* position of the script run
    valid,             \* Option: what validate_fields returned
    warnings,          \* st.warning texts on the page, in order
    charts,            \* st.plotly_chart figures on the page, in order
    filtered_data,     \* Option: labels of the rows kept by the filter
    example_ts,        \* Option: the series (DATA index, QUANTIDADE0M3)
    decomposition,     \* Option: result of seasonal_decompose
    fault,             \* exception that left the script, "" when none
    forecast_dates,    \* Option: forecast_dates of sarima_forecast
    surfaced,          \* history: warnings seen for each cause of rejection
    memo               \* history: Option, first finished run and its outcome

vars == <<data, selected_state, selected_product, period_date, pc, valid,
          warnings, charts, filtered_data, example_ts, decomposition, fault,
          forecast_dates, surfaced, memo>>

None == <<>>
Some(v) == <<v>>

----------------------------------------------------------------------------
(* Calendar arithmetic behind pd.to_datetime, Timestamp and Timedelta.     *)

\* Year of the first row of Database//UF-072001-022024.csv; day 0 is its 1 January.
BaseYear == 2001

IsLeap(y) == (y % 4 = 0 /\ y % 100 # 0) \/ y % 400 = 0

DaysInYear(y) == IF IsLeap(y) THEN 366 ELSE 365

DaysInMonth(y, m) ==
    IF m = 2 THEN (IF IsLeap(y) THEN 29 ELSE 28)
    ELSE IF m \in {4, 6, 9, 11} THEN 30 ELSE 31

RECURSIVE DaysBeforeYear(_)
DaysBeforeYear(y) ==
    IF y <= BaseYear THEN 0 ELSE DaysBeforeYear(y - 1) + DaysInYear(y - 1)

RECURSIVE DaysBeforeMonth(_, _)
DaysBeforeMonth(y, m) ==
    IF m <= 1 THEN 0 ELSE DaysBeforeMonth(y, m - 1) + DaysInMonth(y, m - 1)

\* pd.to_datetime succeeds: the triple names a calendar day.
Parseable(d) ==
    /\ d[2] \in 1..12
    /\ d[3] \in 1..DaysInMonth(d[1], d[2])

\* pd.to_datetime(d) for a parseable d: midnight of that day, as a day number.
to_datetime(d) == DaysBeforeYear(d[1]) + DaysBeforeMonth(d[1], d[2]) + d[3] - 1

RECURSIVE YearOfDay(_, _)
YearOfDay(n, y) ==
    IF n < DaysInYear(y) THEN <<y, n>> ELSE YearOfDay(n - DaysInYear(y), y + 1)

RECURSIVE MonthOfDay(_, _, _)
MonthOfDay(n, y, m) ==
    IF n < DaysInMonth(y, m) THEN <<y, m, n + 1>>
    ELSE MonthOfDay(n - DaysInMonth(y, m), y, m + 1)

\* The calendar date of a timestamp (Timestamp.year, .month, .day).
date_of(n) == LET yn == YearOfDay(n, BaseYear) IN MonthOfDay(yn[2], yn[1], 1)

----------------------------------------------------------------------------
(* validate_fields                                                         *)

MsgInvalidStart == "Invalid start date!"
MsgInvalidEnd == "Invalid end date!"
MsgTooShort ==
    "The period cannot be less than 24 months! This is because the time series used for seasonal decomposition doesn't have enough data for accurate seasonal decomposition. The 'season_decompose' method from the Statsmodels library requires at least 24 observations to calculate seasonal decomposition accurately."
MsgInvalidDate_mut == "Invalid start date!"
MsgInvalidDate == "Invalid date!"
MsgFilters == "There's an issue with the filters, please check and try again."

is_valid_date(d) == Parseable(d)

\* (end_date - start_date).days <= 24 * 30
TooShort_mut(start_date, end_date) == end_date - start_date < 24 * 30
TooShort(start_date, end_date) == end_date - start_date <= 24 * 30

\* The value returned and the warnings issued, in order.
validate_fields(state, product, dates) ==
    IF state # "" /\ product # "" /\ Len(dates) = 2
    THEN IF ~is_valid_date(dates[1])
         THEN [ok |-> FALSE, warn |-> <<MsgInvalidStart>>]
         ELSE IF ~is_valid_date(dates[2])
         THEN [ok |-> FALSE, warn |-> <<MsgInvalidEnd>>]
         ELSE IF TooShort(to_datetime(dates[1]), to_datetime(dates[2]))
         THEN [ok |-> FALSE, warn |-> <<MsgTooShort>>]
         ELSE [ok |-> TRUE, warn |-> <<>>]
    ELSE [ok |-> FALSE, warn |-> <<MsgInvalidDate>>]

----------------------------------------------------------------------------
(* The dataset: Database//UF-072001-022024.csv as main() loads it.         *)

\* Months of data in the file, counted from its first month.
NumMonths == 26

\* Month of the first row of UF-072001-022024.csv.
FirstMonth == 7

\* The date column of the k-th month of the file (k = 0 is 07/2001).
MonthDate(k) ==
    <<BaseYear + ((FirstMonth - 1 + k) \div 12), ((FirstMonth - 1 + k) % 12) + 1, 1>>

\* Quantities of the modelled files: a yearly peak over a drift, or a 4-month cycle.
Quantity(pat, k) ==
    IF pat = 1 THEN 10 + k + (IF k % 12 < 3 THEN 5 ELSE 0)
    ELSE 10 + 2 * (k % 4)

CsvRow(date, state, product, q) ==
    [DATA |-> date, ESTADO |-> state, PRODUTO |-> product, QUANTIDADE0M3 |-> q]

\* The rows of the file from month k on: one SP/GASOLINA row per month (none in
\* month gap) and an RJ/DIESEL row in each of the first three months.
RECURSIVE CsvFrom(_, _, _)
CsvFrom(k, gap, pat) ==
    IF k >= NumMonths THEN <<>>
    ELSE (IF k = gap THEN <<>>
          ELSE <<CsvRow(MonthDate(k), "SP", "GASOLINA", Quantity(pat, k))>>)
         \o (IF k < 3 THEN <<CsvRow(MonthDate(k), "RJ", "DIESEL", 7)>> ELSE <<>>)
         \o CsvFrom(k + 1, gap, pat)

\* The files the model is run on: complete, or with month 12 missing.
CsvFiles == {CsvFrom(0, -1, 1), CsvFrom(0, -1, 2), CsvFrom(0, 12, 1)}

\* load_data and data['DATA'] = pd.to_datetime(data['DATA']); idx is the row label.
load_data(csv) ==
    [i \in 1..Len(csv) |->
        [idx |-> i, DATA |-> to_datetime(csv[i].DATA), ESTADO |-> csv[i].ESTADO,
         PRODUTO |-> csv[i].PRODUTO, QUANTIDADE0M3 |-> csv[i].QUANTIDADE0M3]]

Unique(d, col) == {d[i][col] : i \in 1..Len(d)}

\* example_data['DATA'].min() and .max()
min_date(d) == LET dates == Unique(d, "DATA") IN CHOOSE x \in dates : \A y \in dates : x <= y
max_date(d) == LET dates == Unique(d, "DATA") IN CHOOSE x \in dates : \A y \in dates : x >= y

\* What st.date_input can return: a range half picked, or two dates between
\* min_value and max_value.  The ranges tried start on the first day of the data
\* or the day after and end 720 or 721 days later; from the first day they also
\* end on the first of the 25th month and on the last day of the data.
DateInputs(d) ==
    LET lo == min_date(d)
        hi == max_date(d)
        first25 == to_datetime(MonthDate(24))
    IN  {<<date_of(lo)>>}
        \cup {<<date_of(s), date_of(s + n)>> :
                s \in {lo, lo + 1}, n \in {x \in {24 * 30, 24 * 30 + 1} : lo + 1 + x <= hi}}
        \cup {<<date_of(lo), date_of(e)>> : e \in {x \in {first25, hi} : x >= lo}}

----------------------------------------------------------------------------
(* seasonal_decompose(example_ts, model='additive', period=12)             *)
(*                                                                         *)
(* The library works in floating point; the model keeps every component    *)
(* exact by carrying it as an integer numerator over one common            *)
(* denominator, the field scale of the result.                             *)

period == 12

RECURSIVE SumRange(_, _, _)
SumRange(x, a, b) == IF a > b THEN 0 ELSE x[a] + SumRange(x, a + 1, b)

\* convolution_filter(x, [0.5, 1, ..., 1, 0.5] / period, nsides=2) is defined
\* at 1-based index i when the whole window lies inside the series.
TrendDefined(i, n) == i > period \div 2 /\ i <= n - (period \div 2)

\* Trend at i, times 2 * period.
TrendNum(x, i) ==
    x[i - (period \div 2)]
    + 2 * SumRange(x, i - (period \div 2) + 1, i + (period \div 2) - 1)
    + x[i + (period \div 2)]

\* detrended = x - trend, times 2 * period.
DetrendedNum(x, i) == 2 * period * x[i] - TrendNum(x, i)

\* seasonal_mean: the non-NaN entries of detrended[p::period], p = 0..period-1.
RECURSIVE PhaseCount(_, _)
PhaseCount(i, n) ==
    IF i > n THEN 0
    ELSE (IF TrendDefined(i, n) THEN 1 ELSE 0) + PhaseCount(i + period, n)

RECURSIVE PhaseSum(_, _)
PhaseSum(x, i) ==
    IF i > Len(x) THEN 0
    ELSE (IF TrendDefined(i, Len(x)) THEN DetrendedNum(x, i) ELSE 0)
         + PhaseSum(x, i + period)

\* Product of the phase counts: the denominator shared by the nanmeans.
RECURSIVE CountProduct(_, _)
CountProduct(p, n) ==
    IF p >= period THEN 1 ELSE PhaseCount(p + 1, n) * CountProduct(p + 1, n)

\* pd_nanmean of phase p, times 2 * period * CountProduct.
PhaseMeanNum(x, p) ==
    PhaseSum(x, p + 1) * (CountProduct(0, Len(x)) \div PhaseCount(p + 1, Len(x)))

RECURSIVE SumPhaseMeans(_, _)
SumPhaseMeans(x, p) ==
    IF p >= period THEN 0 ELSE PhaseMeanNum(x, p) + SumPhaseMeans(x, p + 1)

\* period_averages -= np.mean(period_averages), times scale.
period_averages(x) ==
    LET total == SumPhaseMeans(x, 0)
    IN  [q \in 1..period |-> period * PhaseMeanNum(x, q - 1) - total]

\* np.tile(period_averages, nobs // period + 1)[:nobs]
tile_mut(avgs, nobs) == [i \in 1..nobs |-> avgs[((i - 1) % (period - 1)) + 1]]
tile(avgs, nobs) ==
    SubSeq([j \in 1..(period * ((nobs \div period) + 1)) |-> avgs[((j - 1) % period) + 1]],
           1, nobs)

\* The ValueError "x must have 2 complete cycles".
TooFewObservations(x) == Len(x) < 2 * period

\* DecomposeResult for a series of at least 2 * period values.  A phase with no
\* detrended value makes every seasonal value NaN.
seasonal_decompose(x) ==
    LET n == Len(x)
        c == CountProduct(0, n)
        nan == \E p \in 0..(period - 1) : PhaseCount(p + 1, n) = 0
        full == IF nan THEN [i \in 1..n |-> 0] ELSE tile(period_averages(x), n)
    IN  [scale |-> 2 * period * period * c,
         observed |-> x,
         trend |-> [i \in 1..n |->
                       IF TrendDefined(i, n) THEN Some(period * c * TrendNum(x, i))
                       ELSE None],
         seasonal |-> [i \in 1..n |-> IF nan THEN None ELSE Some(full[i])],
         resid |-> [i \in 1..n |->
                       IF TrendDefined(i, n) /\ ~nan
                       THEN Some(period * c * DetrendedNum(x, i) - full[i])
                       ELSE None]]

----------------------------------------------------------------------------
(* The script run behind the Generate button of decompose_time_series.     *)

\* Streamlit re-executes the script on every interaction: what an earlier
\* run put on the page is gone when the next run starts.
rerun_mut(page) == page
rerun(page) == <<>>

\* Where the run goes after validate_fields returned.
after_validate_mut(ok) == "slice"
after_validate(ok) == IF ok THEN "slice" ELSE "done"

\* The boolean mask of the filter, for one row.
end_mask_mut(d, period_date_end) == d < period_date_end
end_mask(d, period_date_end) == d <= period_date_end

RowKept(row, state, product, period_date_start, period_date_end) ==
    /\ row.ESTADO = state
    /\ row.PRODUTO = product
    /\ row.DATA >= period_date_start
    /\ end_mask(row.DATA, period_date_end)

\* example_data[mask]: the rows kept, in file order.
FilterRows(d, state, product, dates) ==
    SelectSeq(d, LAMBDA row :
        RowKept(row, state, product, to_datetime(dates[1]), to_datetime(dates[2])))

\* filtered_data.set_index('DATA')['QUANTIDADE0M3'] over the rows with the given labels.
SeriesOf(d, labels) ==
    [i \in 1..Len(labels) |->
        [DATA |-> d[labels[i]].DATA, value |-> d[labels[i]].QUANTIDADE0M3]]

Values(ts) == [i \in 1..Len(ts) |-> ts[i].value]

Selection == <<selected_state, selected_product, period_date>>

\* History: the first run to finish, with what it left behind.
\* repeated tells that a later run of the same selection has finished too.
Remember(v, w, c, f, ts, dec, flt) ==
    memo' = IF memo = None
            THEN Some([data |-> data, selection |-> Selection,
                       outcome |-> <<v, w, c, f, ts, dec, flt>>,
                       repeated |-> FALSE])
            ELSE IF memo[1].selection = Selection
            THEN Some([memo[1] EXCEPT !.repeated = TRUE])
            ELSE memo

Outcome == <<valid, warnings, charts, filtered_data, example_ts, decomposition, fault>>

Resting == pc \in {"idle", "done", "fault"}

\* The user changes a widget: the script runs with the button not pressed.
SelectInputs ==
    /\ Resting
    /\ selected_state' \in Unique(data, "ESTADO")
    /\ selected_product' \in Unique(data, "PRODUTO")
    /\ period_date' \in DateInputs(data)
    /\ pc' = "idle"
    /\ valid' = None
    /\ warnings' = rerun(warnings)
    /\ charts' = rerun(charts)
    /\ filtered_data' = None
    /\ example_ts' = None
    /\ decomposition' = None
    /\ fault' = ""
    /\ UNCHANGED <<data, forecast_dates, surfaced, memo>>

\* The user presses Generate: the script runs into the button's branch.
Generate ==
    /\ Resting
    /\ pc' = "validate"
    /\ valid' = None
    /\ warnings' = rerun(warnings)
    /\ charts' = rerun(charts)
    /\ filtered_data' = None
    /\ example_ts' = None
    /\ decomposition' = None
    /\ fault' = ""
    /\ UNCHANGED <<data, selected_state, selected_product, period_date,
                   forecast_dates, surfaced, memo>>

\* if validate_fields(...): ... else: st.warning(...)
Validate ==
    /\ pc = "validate"
    /\ LET r == validate_fields(selected_state, selected_product, period_date)
           w == warnings \o r.warn \o (IF r.ok THEN <<>> ELSE <<MsgFilters>>)
       IN  /\ valid' = Some(r.ok)
           /\ warnings' = w
           /\ pc' = after_validate(r.ok)
           /\ IF pc' = "done"
              THEN Remember(Some(r.ok), w, charts, filtered_data, example_ts,
                            decomposition, fault)
              ELSE UNCHANGED memo
    /\ UNCHANGED <<data, selected_state, selected_product, period_date, charts,
                   filtered_data, example_ts, decomposition, fault,
                   forecast_dates, surfaced>>

\* period_date_start, period_date_end and the filter.
Slice ==
    /\ pc = "slice"
    /\ LET kept == FilterRows(data, selected_state, selected_product, period_date)
       IN  filtered_data' = Some([i \in 1..Len(kept) |-> kept[i].idx])
    /\ pc' = "plot_original"
    /\ UNCHANGED <<data, selected_state, selected_product, period_date, valid,
                   warnings, charts, example_ts, decomposition, fault,
                   forecast_dates, surfaced, memo>>

\* The chart of the original series, then example_ts.
PlotOriginal ==
    /\ pc = "plot_original"
    /\ charts' = Append(charts, "original")
    /\ example_ts' = Some(SeriesOf(data, filtered_data[1]))
    /\ pc' = "decompose"
    /\ UNCHANGED <<data, selected_state, selected_product, period_date, valid,
                   warnings, filtered_data, decomposition, fault,
                   forecast_dates, surfaced, memo>>

\* seasonal_decompose: its ValueError is caught nowhere and ends the script.
Decompose ==
    /\ pc = "decompose"
    /\ IF TooFewObservations(Values(example_ts[1]))
       THEN /\ fault' = "ValueError"
            /\ pc' = "fault"
            /\ Remember(valid, warnings, charts, filtered_data, example_ts,
                        decomposition, "ValueError")
            /\ UNCHANGED decomposition
       ELSE /\ decomposition' = Some(seasonal_decompose(Values(example_ts[1])))
            /\ pc' = "plot_components"
            /\ UNCHANGED <<fault, memo>>
    /\ UNCHANGED <<data, selected_state, selected_product, period_date, valid,
                   warnings, charts, filtered_data, example_ts,
                   forecast_dates, surfaced>>

\* The three component charts; the call of sarima_forecast that follows them in
\* the source is commented out, so the run ends here.
PlotComponents ==
    /\ pc = "plot_components"
    /\ charts' = charts \o <<"trend", "seasonal", "residual">>
    /\ pc' = "done"
    /\ Remember(valid, warnings, charts', filtered_data, example_ts,
                decomposition, fault)
    /\ UNCHANGED <<data, selected_state, selected_product, period_date, valid,
                   warnings, filtered_data, example_ts, decomposition, fault,
                   forecast_dates, surfaced>>

NoHistory == [missing |-> {}, invalid_date |-> {}, too_short |-> {}]

\* main(): the file is loaded and the widgets show their defaults.
Init ==
    /\ \E csv \in CsvFiles :
        /\ data = load_data(csv)
        /\ selected_state \in Unique(data, "ESTADO")
        /\ selected_product \in Unique(data, "PRODUTO")
        /\ period_date = <<date_of(min_date(data)), date_of(max_date(data))>>
    /\ pc = "idle"
    /\ valid = None
    /\ warnings = <<>>
    /\ charts = <<>>
    /\ filtered_data = None
    /\ example_ts = None
    /\ decomposition = None
    /\ fault = ""
    /\ forecast_dates = None
    /\ surfaced = NoHistory
    /\ memo = None

Next ==
    \/ SelectInputs
    \/ Generate
    \/ Validate
    \/ Slice
    \/ PlotOriginal
    \/ Decompose
    \/ PlotComponents

Spec == Init /\ [][Next]_vars

----------------------------------------------------------------------------
(* validate_fields on its own: called with any state, product and tuple of  *)
(* dates, the dates given as text that may name no calendar day.           *)

ValidatorStates == {"", "SP"}
ValidatorProducts == {"", "GASOLINA"}

\* 30 February and month 13 do not parse; the others are 720, 721 and 722
\* days apart, across common years and across the leap year 2004.
ValidatorDates ==
    {<<2001, 7, 1>>, <<2001, 7, 2>>, <<2003, 6, 21>>, <<2003, 6, 22>>,
     <<2003, 6, 23>>, <<2004, 1, 1>>, <<2005, 12, 21>>, <<2005, 12, 22>>,
     <<2003, 2, 30>>, <<2003, 13, 1>>}

ValidatorPeriods ==
    {<<>>} \cup {<<a>> : a \in ValidatorDates}
           \cup {<<a, b>> : a \in ValidatorDates, b \in ValidatorDates}

\* Why a call is rejected, read off its arguments.
Cause(state, product, dates) ==
    IF state = "" \/ product = "" THEN "missing"
    ELSE IF Len(dates) # 2 THEN "incomplete"
    ELSE IF ~Parseable(dates[1]) \/ ~Parseable(dates[2]) THEN "invalid_date"
    ELSE IF to_datetime(dates[2]) - to_datetime(dates[1]) <= 24 * 30 THEN "too_short"
    ELSE "none"

ValidatorInit ==
    /\ data = <<>>
    /\ selected_state \in ValidatorStates
    /\ selected_product \in ValidatorProducts
    /\ period_date \in ValidatorPeriods
    /\ pc = "idle"
    /\ valid = None
    /\ warnings = <<>>
    /\ charts = <<>>
    /\ filtered_data = None
    /\ example_ts = None
    /\ decomposition = None
    /\ fault = ""
    /\ forecast_dates = None
    /\ surfaced = NoHistory
    /\ memo = None

\* The caller prepares the next call.
ValidatorArguments ==
    /\ pc = "returned"
    /\ selected_state' \in ValidatorStates
    /\ selected_product' \in ValidatorProducts
    /\ period_date' \in ValidatorPeriods
    /\ pc' = "idle"
    /\ valid' = None
    /\ warnings' = <<>>
    /\ UNCHANGED <<data, charts, filtered_data, example_ts, decomposition, fault,
                   forecast_dates, surfaced, memo>>

\* validate_fields(selected_state, selected_product, period_date)
ValidatorCall ==
    /\ pc = "idle"
    /\ LET r == validate_fields(selected_state, selected_product, period_date)
           cause == Cause(selected_state, selected_product, period_date)
       IN  /\ valid' = Some(r.ok)
           /\ warnings' = r.warn
           /\ surfaced' = IF cause \in DOMAIN surfaced
                          THEN [surfaced EXCEPT ![cause] = @ \cup {r.warn}]
                          ELSE surfaced
    /\ pc' = "returned"
    /\ UNCHANGED <<data, selected_state, selected_product, period_date, charts,
                   filtered_data, example_ts, decomposition, fault,
                   forecast_dates, memo>>

ValidatorNext ==
    \/ ValidatorArguments
    \/ ValidatorCall

SpecValidate == ValidatorInit /\ [][ValidatorNext]_vars

----------------------------------------------------------------------------
(* sarima_forecast on its own: called with a monthly series.               *)

\* The module imports seasonal_decompose from statsmodels and nothing else:
\* the name SARIMAX is bound nowhere.
SARIMAX_imported == FALSE

\* sarima_model_fit.forecast(steps=12)
steps == 12

\* Series handed to the forecaster: this many monthly points.
SeriesLen == 25

MonthEnd(y, m) == to_datetime(<<y, m, DaysInMonth(y, m)>>)

RECURSIVE MonthEnds(_, _, _)
MonthEnds(y, m, count) ==
    IF count = 0 THEN <<>>
    ELSE <<MonthEnd(y, m)>>
         \o (IF m = 12 THEN MonthEnds(y + 1, 1, count - 1)
             ELSE MonthEnds(y, m + 1, count - 1))

\* pd.date_range(start=start, periods=periods, freq='M'): freq 'M' is month
\* end, so the range starts at the first month end on or after start.
date_range(start, periods) ==
    LET d == date_of(start) IN MonthEnds(d[1], d[2], periods)

\* The date dom-th of the k-th month of the file, or that month's last day.
DayOfMonth(k, dom) ==
    LET f == MonthDate(k)
    IN  <<f[1], f[2], IF dom > DaysInMonth(f[1], f[2]) THEN DaysInMonth(f[1], f[2]) ELSE dom>>

MonthlySeries(first, dom) ==
    [i \in 1..SeriesLen |->
        [DATA |-> to_datetime(DayOfMonth(first + i - 1, dom)),
         value |-> Quantity(1, first + i - 1)]]

ForecastInit ==
    /\ data = <<>>
    /\ selected_state = "SP"
    /\ selected_product = "GASOLINA"
    /\ period_date = <<>>
    /\ pc = "idle"
    /\ valid = None
    /\ warnings = <<>>
    /\ charts = <<>>
    /\ filtered_data = None
    /\ \E first \in 0..11, dom \in 1..31 : example_ts = Some(MonthlySeries(first, dom))
    /\ decomposition = None
    /\ fault = ""
    /\ forecast_dates = None
    /\ surfaced = NoHistory
    /\ memo = None

\* sarima_forecast(example_ts, selected_product, selected_state): the first
\* statement looks SARIMAX up and raises NameError; with the name bound the
\* function goes on to the forecast dates and the chart.
SarimaForecast ==
    /\ pc = "idle"
    /\ IF ~SARIMAX_imported
       THEN /\ fault' = "NameError"
            /\ pc' = "fault"
            /\ UNCHANGED <<forecast_dates, charts>>
       ELSE /\ forecast_dates' =
                  Some(Tail(date_range(example_ts[1][Len(example_ts[1])].DATA, steps + 1)))
            /\ charts' = Append(charts, "forecast")
            /\ pc' = "done"
            /\ UNCHANGED fault
    /\ UNCHANGED <<data, selected_state, selected_product, period_date, valid,
                   warnings, filtered_data, example_ts, decomposition,
                   surfaced, memo>>

ForecastNext == SarimaForecast

SpecForecast == ForecastInit /\ [][ForecastNext]_vars

----------------------------------------------------------------------------
(* Properties                                                              *)

ValidatorDays == to_datetime(period_date[2]) - to_datetime(period_date[1])

ValidatorCase ==
    /\ pc = "returned"
    /\ selected_state # ""
    /\ selected_product # ""
    /\ Len(period_date) = 2
    /\ Parseable(period_date[1])
    /\ Parseable(period_date[2])

\* C1: with a state, a product and two parseable dates, validate_fields
\* accepts exactly when end - start is more than 24 * 30 = 720 whole days:
\* 720 days are rejected, 721 are accepted.
C1_Boundary ==
    ValidatorCase =>
        /\ valid = Some(ValidatorDays > 24 * 30)
        /\ (ValidatorDays = 24 * 30 => valid = Some(FALSE))
        /\ (ValidatorDays = 24 * 30 + 1 => valid = Some(TRUE))

C1_Witness ==
    /\ ValidatorCase
    /\ ValidatorDays = 24 * 30
    /\ valid = Some(FALSE)
    /\ warnings = <<MsgTooShort>>

C3_ForecastFollows ==
    (pc = "done" /\ valid = Some(TRUE) /\ decomposition # None) =>
        /\ example_ts # None
        /\ forecast_dates # None
        /\ \E i \in 1..Len(charts) : charts[i] = "forecast"

\* The selected state and product have a row in every month of the file.
EveryMonthPresent ==
    Cardinality({i \in 1..Len(data) :
        data[i].ESTADO = selected_state /\ data[i].PRODUTO = selected_product}) = NumMonths

\* C4 (as claimed, for a state and product with a row in every month): a run
\* that failed ended with a warning on the page and without an exception
\* leaving decompose_time_series.
C4_FailuresReported ==
    (/\ EveryMonthPresent
     /\ pc \in {"done", "fault"}
     /\ (valid = Some(FALSE) \/ decomposition = None)) =>
        /\ fault = ""
        /\ warnings # <<>>

\* C5 (as claimed): a call of sarima_forecast ends with 12 forecast
\* timestamps, the first one month after the last timestamp of the series (the
\* same day of the next month, or that month's last day), each later one in
\* the month after its predecessor, strictly increasing.
C5_ForecastDates ==
    (pc \in {"done", "fault"}) =>
        /\ forecast_dates # None
        /\ Len(forecast_dates[1]) = steps
        /\ LET ts == example_ts[1]
               last == date_of(ts[Len(ts)].DATA)
               fd == [i \in 1..Len(forecast_dates[1]) |-> date_of(forecast_dates[1][i])]
               month(d) == 12 * d[1] + d[2]
           IN  /\ month(fd[1]) = month(last) + 1
               /\ fd[1][3] = (IF last[3] > DaysInMonth(fd[1][1], fd[1][2])
                              THEN DaysInMonth(fd[1][1], fd[1][2]) ELSE last[3])
               /\ \A i \in 1..(Len(fd) - 1) :
                      /\ month(fd[i + 1]) = month(fd[i]) + 1
                      /\ forecast_dates[1][i] < forecast_dates[1][i + 1]

\* C6 (as claimed, for a state and product with a row in every month): the
\* series that reaches seasonal_decompose has at least 2 * period = 24 points.
C6_TwoCycles ==
    (EveryMonthPresent /\ pc = "decompose") => Len(example_ts[1]) >= 2 * period

\* C7: a run that finishes leaves what the first finished run of the same
\* selection on the same data left, and no run changes the data.
C7_Repeatable ==
    (memo # None) =>
        /\ memo[1].data = data
        /\ (pc \in {"done", "fault"} /\ memo[1].selection = Selection) =>
               memo[1].outcome = Outcome

C7_Witness ==
    /\ pc = "done"
    /\ memo # None
    /\ memo[1].repeated
    /\ memo[1].selection = Selection
    /\ decomposition # None

\* C8: when validate_fields rejects the selection the run ends there with a
\* warning on the page and nothing sliced, plotted or decomposed; rows are
\* sliced only after validation succeeded.
C8_ShortCircuit ==
    /\ valid = Some(FALSE) =>
           /\ pc = "done"
           /\ Len(warnings) >= 1
           /\ filtered_data = None
           /\ example_ts = None
           /\ charts = <<>>
           /\ decomposition = None
    /\ (filtered_data # None \/ pc = "slice") => valid = Some(TRUE)

C8_Witness ==
    /\ pc = "done"
    /\ valid = Some(FALSE)
    /\ Len(period_date) = 2
    /\ filtered_data = None
    /\ charts = <<>>

Matching ==
    {i \in 1..Len(data) :
        /\ data[i].ESTADO = selected_state
        /\ data[i].PRODUTO = selected_product
        /\ to_datetime(period_date[1]) <= data[i].DATA
        /\ data[i].DATA <= to_datetime(period_date[2])}

\* C9: the rows kept are exactly the rows of the selected state and product
\* dated from the validated start to the validated end, both included, each
\* once, and the series handed to seasonal_decompose is made of them.
C9_SliceExact ==
    /\ filtered_data # None =>
           /\ {filtered_data[1][i] : i \in 1..Len(filtered_data[1])} = Matching
           /\ Len(filtered_data[1]) = Cardinality(Matching)
    /\ example_ts # None =>
           /\ Len(example_ts[1]) = Cardinality(Matching)
           /\ \A i \in 1..Len(example_ts[1]) :
                  /\ filtered_data[1][i] \in Matching
                  /\ example_ts[1][i].DATA = data[filtered_data[1][i]].DATA
                  /\ example_ts[1][i].value = data[filtered_data[1][i]].QUANTIDADE0M3

C9_Witness ==
    /\ pc = "decompose"
    /\ Len(example_ts[1]) >= 2 * period
    /\ example_ts[1][1].DATA = to_datetime(period_date[1])
    /\ example_ts[1][Len(example_ts[1])].DATA = to_datetime(period_date[2])
    /\ Cardinality(Matching) < Len(data)
    /\ \E i \in 1..Len(data) : data[i].DATA > to_datetime(period_date[2])

\* C10: the seasonal component of a decomposed series has a value at every
\* index, the first and last ones included where trend and residual have
\* none, and repeats with period 12.
C10_SeasonalPeriodic ==
    decomposition # None =>
        LET dec == decomposition[1]
            n == Len(dec.observed)
        IN  /\ n >= 2 * period
            /\ Len(dec.seasonal) = n
            /\ \A i \in 1..n : dec.seasonal[i] # None
            /\ \A i \in 1..(n - period) : dec.seasonal[i] = dec.seasonal[i + period]
            /\ dec.trend[1] = None /\ dec.resid[1] = None
            /\ dec.trend[n] = None /\ dec.resid[n] = None

C10_Witness ==
    /\ decomposition # None
    /\ Len(decomposition[1].seasonal) > 2 * period
    /\ decomposition[1].seasonal[1] # None
    /\ decomposition[1].seasonal[1] # decomposition[1].seasonal[4]
    /\ decomposition[1].seasonal[1] = decomposition[1].seasonal[1 + period]
    /\ decomposition[1].trend[1] = None

====
